---- MODULE Spec2Model ----
(***************************************************************************)
(* The Student Assistant (src/app.py): a Streamlit script.  Every user     *)
(* interaction, and every st.rerun(), executes the script from the top     *)
(* against the session state.  One step of this model is one execution of  *)
(* the script; a state of the model is the session state, the widget       *)
(* values and a record of what the execution did, at the end of a run.     *)
(*                                                                         *)
(* Python values are tagged records, so that None, strings, uploaded       *)
(* files and Parts can be compared with each other.  A string is the       *)
(* sequence of its tokens.                                                 *)
(*                                                                         *)
(* Scheduling, as stated in section 5 of the specification: a run executes *)
(* to completion, and a run that ends in st.rerun() is followed by the     *)
(* rerun before the next user interaction is handled.                      *)
(***************************************************************************)
EXTENDS Integers, Sequences, FiniteSets, TLC

VARIABLES
    secrets,            \* "GEMINI_API_KEY" in st.secrets
    api_key,            \* value of the sidebar text input
    client,             \* the module-level client of the last run
    warning_shown,      \* st.warning("API Key required.") rendered by the last run
    uploaded_file,      \* value of the st.file_uploader widget
    uploaded_file_ref,  \* st.session_state.uploaded_file_ref
    current_file_name,  \* st.session_state.current_file_name
    workflow_status,    \* st.session_state.workflow_status
    concept_map,        \* st.session_state.concept_map
    flashcards_csv,     \* st.session_state.flashcards_csv
    quiz_history,       \* st.session_state.quiz_history
    event,              \* what started the last run
    last_run,           \* the path the last run took through the script
    calls,              \* the calls of generate made by the last run, in order
    concept_src,        \* content_part of the call that produced concept_map
    flashcards_src,     \* content_part of the call that produced flashcards_csv
    quiz_src            \* content_parts of the calls that produced quiz_history

vars == <<secrets, api_key, client, warning_shown, uploaded_file,
          uploaded_file_ref, current_file_name, workflow_status, concept_map,
          flashcards_csv, quiz_history, event, last_run, calls, concept_src,
          flashcards_src, quiz_src>>

session == <<uploaded_file_ref, current_file_name, workflow_status,
             concept_map, flashcards_csv, quiz_history>>

derived == <<concept_map, flashcards_csv, quiz_history>>

(***************************************************************************)
(* Bounds and the values the environment supplies.                         *)
(***************************************************************************)
MaxTurns == 5

None == [kind |-> "None"]

Str(s) == [kind |-> "str", chars |-> s]

UploadedFile(n, t, d) == [kind |-> "UploadedFile", name |-> Str(<<n>>), type |-> t, data |-> d]

Files ==
    { UploadedFile("notes.txt", "text/plain", "v1"),
      UploadedFile("notes.txt", "text/plain", "v2"),
      UploadedFile("slides.pdf", "application/pdf", "v1") }

ApiKeys == {"", "key"}

UserAnswers == { Str(<<"4">>), Str(<<"a", "\n", "b">>) }

RemoteOutcomes ==
    { [kind |-> "text", value |-> Str(<<"reply">>)],
      [kind |-> "exception", value |-> Str(<<"503">>)] }

(***************************************************************************)
(* API key handling.                                                       *)
(***************************************************************************)
Client(k) == [kind |-> "Client", api_key |-> k]

ApiKeyHandling(sec, key) ==
    IF sec THEN [client |-> Client("secret"), warning |-> FALSE]
    ELSE IF key # "" THEN [client |-> Client(key), warning |-> FALSE]
    ELSE [client |-> None, warning |-> TRUE]

(***************************************************************************)
(* The Gemini caller.                                                      *)
(***************************************************************************)
DefaultModel == Str(<<"gemini-2.0-flash">>)

NoApiKey == Str(<<"Error:", " ", "No API Key">>)

ErrorText(e) == Str(<<"Error:", " ">> \o e.chars)

Contents(prompt, content_part) ==
    IF content_part # None THEN <<prompt, content_part>> ELSE <<prompt>>

\* generate without the guard of line 59: the remote call is made with no client.
generateUnguarded(cl, prompt, content_part, remote) ==
    LET request == [kind |-> "generate_content", model |-> DefaultModel,
                    contents |-> Contents(prompt, content_part)]
    IN  IF remote.kind = "exception"
        THEN [text |-> ErrorText(remote.value), prompt |-> prompt,
              content_part |-> content_part, request |-> request,
              caught |-> remote.value, raised |-> None]
        ELSE [text |-> remote.value, prompt |-> prompt,
              content_part |-> content_part, request |-> request,
              caught |-> None, raised |-> None]

\* generate without the try/except of lines 60-71: the exception leaves it.
generateUncaught(cl, prompt, content_part, remote) ==
    IF cl = None
    THEN [text |-> NoApiKey, prompt |-> prompt, content_part |-> content_part,
          request |-> None, caught |-> None, raised |-> None]
    ELSE LET request == [kind |-> "generate_content", model |-> DefaultModel,
                         contents |-> Contents(prompt, content_part)]
         IN  IF remote.kind = "exception"
             THEN [text |-> None, prompt |-> prompt,
                   content_part |-> content_part, request |-> request,
                   caught |-> None, raised |-> remote.value]
             ELSE [text |-> remote.value, prompt |-> prompt,
                   content_part |-> content_part, request |-> request,
                   caught |-> None, raised |-> None]

\* generate(prompt, content_part, model) read against the module-level client
\* cl; remote is what client.models.generate_content does when it is called.
\* text is the value returned; request is the outbound call (None when none
\* was made); caught is the exception the except clause handled; raised is
\* the exception that leaves generate (no path of the function raises).
generate(cl, prompt, content_part, remote) ==
    IF cl = None
    THEN [text |-> NoApiKey, prompt |-> prompt, content_part |-> content_part,
          request |-> None, caught |-> None, raised |-> None]
    ELSE LET request == [kind |-> "generate_content", model |-> DefaultModel,
                         contents |-> Contents(prompt, content_part)]
         IN  IF remote.kind = "exception"
             THEN [text |-> ErrorText(remote.value), prompt |-> prompt,
                   content_part |-> content_part, request |-> request,
                   caught |-> remote.value, raised |-> None]
             ELSE [text |-> remote.value, prompt |-> prompt,
                   content_part |-> content_part, request |-> request,
                   caught |-> None, raised |-> None]

(***************************************************************************)
(* Handling of a new upload and of the removal of the file.                *)
(***************************************************************************)
PartFromBytes(data, mime_type) == [kind |-> "Part", data |-> data, mime_type |-> mime_type]

NewUploadDetected(file) == file # None /\ file.name # current_file_name

FileRemovalDetected(file) == file = None /\ uploaded_file_ref # None

\* The new-upload block starting the workflow by itself.
NewUploadAutoLaunch(file) ==
    \E processed \in BOOLEAN :
        /\ concept_map' = None
        /\ flashcards_csv' = None
        /\ quiz_history' = <<>>
        /\ concept_src' = None
        /\ flashcards_src' = None
        /\ quiz_src' = {}
        /\ calls' = <<>>
        /\ IF processed
           THEN /\ uploaded_file_ref' = PartFromBytes(file.data, file.type)
                /\ current_file_name' = file.name
                /\ workflow_status' = "processing"
                /\ last_run' = "upload_ok"
           ELSE /\ uploaded_file_ref' = None
                /\ UNCHANGED current_file_name
                /\ workflow_status' = "idle"
                /\ last_run' = "upload_error"

\* Lines 87-105.  processed: whether getvalue and Part.from_bytes return
\* (the run then ends in st.rerun()) or raise (st.error, and the script
\* goes on with uploaded_file_ref = None).
NewUpload(file) ==
    \E processed \in BOOLEAN :
        /\ workflow_status' = "idle"
        /\ concept_map' = None
        /\ flashcards_csv' = None
        /\ quiz_history' = <<>>
        /\ concept_src' = None
        /\ flashcards_src' = None
        /\ quiz_src' = {}
        /\ calls' = <<>>
        /\ IF processed
           THEN /\ uploaded_file_ref' = PartFromBytes(file.data, file.type)
                /\ current_file_name' = file.name
                /\ last_run' = "upload_ok"
           ELSE /\ uploaded_file_ref' = None
                /\ UNCHANGED current_file_name
                /\ last_run' = "upload_error"

\* The removal block without line 111.
FileRemovalKeepsStatus ==
    /\ uploaded_file_ref' = None
    /\ current_file_name' = None
    /\ UNCHANGED workflow_status
    /\ concept_map' = None
    /\ flashcards_csv' = None
    /\ quiz_history' = <<>>
    /\ concept_src' = None
    /\ flashcards_src' = None
    /\ quiz_src' = {}
    /\ calls' = <<>>
    /\ last_run' = "removal"

\* The removal block without line 114.
FileRemovalKeepsHistory ==
    /\ uploaded_file_ref' = None
    /\ current_file_name' = None
    /\ workflow_status' = "idle"
    /\ concept_map' = None
    /\ flashcards_csv' = None
    /\ UNCHANGED <<quiz_history, quiz_src>>
    /\ concept_src' = None
    /\ flashcards_src' = None
    /\ calls' = <<>>
    /\ last_run' = "removal"

\* Lines 108-115.
FileRemoval ==
    /\ uploaded_file_ref' = None
    /\ current_file_name' = None
    /\ workflow_status' = "idle"
    /\ concept_map' = None
    /\ flashcards_csv' = None
    /\ quiz_history' = <<>>
    /\ concept_src' = None
    /\ flashcards_src' = None
    /\ quiz_src' = {}
    /\ calls' = <<>>
    /\ last_run' = "removal"

(***************************************************************************)
(* The workflow: launch button, agent steps, dashboard.                    *)
(***************************************************************************)
summary_prompt == Str(<<"Analyze the attached material deeply. Create a 'Concept Map' Summary">>)

flashcard_prompt == Str(<<"Create a CSV formatted list of flashcards from this content.">>)

q1_prompt == Str(<<"Ask me the first distinct question based on the uploaded file.">>)

\* Lines 121-125.  clicked: the value st.button returns in this run.
LaunchView(clicked) ==
    /\ calls' = <<>>
    /\ UNCHANGED <<uploaded_file_ref, current_file_name, derived,
                   concept_src, flashcards_src, quiz_src>>
    /\ IF clicked
       THEN workflow_status' = "processing" /\ last_run' = "launch_clicked"
       ELSE UNCHANGED workflow_status /\ last_run' = "launch_shown"

\* The processing branch without its second step.
ProcessingSkipsFlashcards(cl) ==
    \E r1, r3 \in RemoteOutcomes :
        LET c1 == generate(cl, summary_prompt, uploaded_file_ref, r1)
            c3 == generate(cl, q1_prompt, uploaded_file_ref, r3)
        IN  /\ concept_map' = c1.text
            /\ concept_src' = c1.content_part
            /\ UNCHANGED <<flashcards_csv, flashcards_src>>
            /\ quiz_history' = << <<"assistant", c3.text>> >>
            /\ quiz_src' = {c3.content_part}
            /\ calls' = <<c1, c3>>
            /\ workflow_status' = "done"
            /\ last_run' = "processing"
            /\ UNCHANGED <<uploaded_file_ref, current_file_name>>

\* A processing branch that looks at what its calls returned: after a
\* failed call nothing is stored and the workflow goes back to "idle".
ProcessingGuarded(cl) ==
    \E r1, r2, r3 \in RemoteOutcomes :
        LET c1 == generate(cl, summary_prompt, uploaded_file_ref, r1)
            c2 == generate(cl, flashcard_prompt, uploaded_file_ref, r2)
            c3 == generate(cl, q1_prompt, uploaded_file_ref, r3)
            failed == \E c \in {c1, c2, c3} : c.request = None \/ c.caught # None
        IN  /\ calls' = <<c1, c2, c3>>
            /\ last_run' = "processing"
            /\ UNCHANGED <<uploaded_file_ref, current_file_name>>
            /\ IF failed
               THEN /\ workflow_status' = "idle"
                    /\ UNCHANGED <<derived, concept_src, flashcards_src, quiz_src>>
               ELSE /\ concept_map' = c1.text
                    /\ concept_src' = c1.content_part
                    /\ flashcards_csv' = c2.text
                    /\ flashcards_src' = c2.content_part
                    /\ quiz_history' = << <<"assistant", c3.text>> >>
                    /\ quiz_src' = {c3.content_part}
                    /\ workflow_status' = "done"

\* A processing branch that stops the script (st.stop) at the first failed
\* call, leaving the workflow in "processing".
ProcessingHaltsOnFailure(cl) ==
    \E r1, r2, r3 \in RemoteOutcomes :
        LET c1 == generate(cl, summary_prompt, uploaded_file_ref, r1)
            c2 == generate(cl, flashcard_prompt, uploaded_file_ref, r2)
            c3 == generate(cl, q1_prompt, uploaded_file_ref, r3)
            bad(c) == c.request = None \/ c.caught # None
            ok1 == ~bad(c1)
            ok2 == ok1 /\ ~bad(c2)
            ok3 == ok2 /\ ~bad(c3)
        IN  /\ concept_map' = IF ok1 THEN c1.text ELSE concept_map
            /\ concept_src' = IF ok1 THEN c1.content_part ELSE concept_src
            /\ flashcards_csv' = IF ok2 THEN c2.text ELSE flashcards_csv
            /\ flashcards_src' = IF ok2 THEN c2.content_part ELSE flashcards_src
            /\ quiz_history' = IF ok3 THEN << <<"assistant", c3.text>> >> ELSE quiz_history
            /\ quiz_src' = IF ok3 THEN {c3.content_part} ELSE quiz_src
            /\ calls' = IF ~ok1 THEN <<c1>> ELSE IF ~ok2 THEN <<c1, c2>> ELSE <<c1, c2, c3>>
            /\ workflow_status' = IF ok3 THEN "done" ELSE workflow_status
            /\ last_run' = IF ok3 THEN "processing" ELSE "stopped"
            /\ UNCHANGED <<uploaded_file_ref, current_file_name>>

\* The processing branch without line 166.
ProcessingNeverDone(cl) ==
    \E r1, r2, r3 \in RemoteOutcomes :
        LET c1 == generate(cl, summary_prompt, uploaded_file_ref, r1)
            c2 == generate(cl, flashcard_prompt, uploaded_file_ref, r2)
            c3 == generate(cl, q1_prompt, uploaded_file_ref, r3)
        IN  /\ concept_map' = c1.text
            /\ concept_src' = c1.content_part
            /\ flashcards_csv' = c2.text
            /\ flashcards_src' = c2.content_part
            /\ quiz_history' = << <<"assistant", c3.text>> >>
            /\ quiz_src' = {c3.content_part}
            /\ calls' = <<c1, c2, c3>>
            /\ UNCHANGED workflow_status
            /\ last_run' = "processing"
            /\ UNCHANGED <<uploaded_file_ref, current_file_name>>

\* Lines 128-168.  A statement is reached when no call before it raised; an
\* exception leaving a call ends the run there.
Processing(cl) ==
    \E r1, r2, r3 \in RemoteOutcomes :
        LET c1 == generate(cl, summary_prompt, uploaded_file_ref, r1)
            c2 == generate(cl, flashcard_prompt, uploaded_file_ref, r2)
            c3 == generate(cl, q1_prompt, uploaded_file_ref, r3)
            ok1 == c1.raised = None
            ok2 == ok1 /\ c2.raised = None
            ok3 == ok2 /\ c3.raised = None
        IN  /\ concept_map' = IF ok1 THEN c1.text ELSE concept_map
            /\ concept_src' = IF ok1 THEN c1.content_part ELSE concept_src
            /\ flashcards_csv' = IF ok2 THEN c2.text ELSE flashcards_csv
            /\ flashcards_src' = IF ok2 THEN c2.content_part ELSE flashcards_src
            /\ quiz_history' = IF ok3 THEN << <<"assistant", c3.text>> >> ELSE quiz_history
            /\ quiz_src' = IF ok3 THEN {c3.content_part} ELSE quiz_src
            /\ calls' = IF ~ok1 THEN <<c1>> ELSE IF ~ok2 THEN <<c1, c2>> ELSE <<c1, c2, c3>>
            /\ workflow_status' = IF ok3 THEN "done" ELSE workflow_status
            /\ last_run' = IF ok3 THEN "processing" ELSE "uncaught_exception"
            /\ UNCHANGED <<uploaded_file_ref, current_file_name>>

\* f"{role}: {text}"
TurnLine(turn) == <<turn[1], ":", " ">> \o turn[2].chars

RECURSIVE Join(_, _)
\* sep.join(lines)
Join(sep, lines) ==
    IF lines = <<>> THEN <<>>
    ELSE IF Len(lines) = 1 THEN lines[1]
    ELSE lines[1] \o sep \o Join(sep, Tail(lines))

\* A transcript of the last turn only.
HistoryTextLastTurn(history) == TurnLine(history[Len(history)])

\* Line 218.
HistoryText(history) ==
    Join(<<"\n">>, [i \in 1..Len(history) |-> TurnLine(history[i])])

GradingHead == <<"Context: The user is answering a quiz based on the uploaded file. History: ">>

GradingTail == <<" Task: 1. Grade the user's last answer 2. If wrong, explain why 3. Ask the NEXT distinct question.">>

\* Lines 219-227.
GradingPrompt(history_text) == Str(GradingHead \o history_text \o GradingTail)

\* A dashboard that asks for the concept map again whenever it is rendered.
DashboardRegenerates(cl, user_answer) ==
    /\ UNCHANGED <<uploaded_file_ref, current_file_name, workflow_status,
                   flashcards_csv, flashcards_src>>
    /\ \E r0 \in RemoteOutcomes :
         LET again == generate(cl, summary_prompt, uploaded_file_ref, r0)
         IN  /\ concept_map' = again.text
             /\ concept_src' = again.content_part
             /\ IF user_answer # None
                THEN \E r \in RemoteOutcomes :
                       LET answered == Append(quiz_history, <<"user", user_answer>>)
                           response == generate(cl, GradingPrompt(HistoryText(answered)),
                                                uploaded_file_ref, r)
                       IN  /\ quiz_history' = Append(answered, <<"assistant", response.text>>)
                           /\ quiz_src' = quiz_src \cup {response.content_part}
                           /\ calls' = <<again, response>>
                           /\ last_run' = "chat"
                ELSE /\ UNCHANGED <<quiz_history, quiz_src>>
                     /\ calls' = <<again>>
                     /\ last_run' = "dashboard"

\* A dashboard whose chat handler starts the workflow again.
DashboardRelaunches(cl, user_answer) ==
    /\ UNCHANGED <<uploaded_file_ref, current_file_name,
                   concept_map, flashcards_csv, concept_src, flashcards_src>>
    /\ IF user_answer # None
       THEN \E r \in RemoteOutcomes :
              LET answered == Append(quiz_history, <<"user", user_answer>>)
                  response == generate(cl, GradingPrompt(HistoryText(answered)),
                                       uploaded_file_ref, r)
              IN  /\ quiz_history' = Append(answered, <<"assistant", response.text>>)
                  /\ quiz_src' = quiz_src \cup {response.content_part}
                  /\ calls' = <<response>>
                  /\ workflow_status' = "processing"
                  /\ last_run' = "chat"
       ELSE /\ UNCHANGED <<quiz_history, quiz_src, workflow_status>>
            /\ calls' = <<>>
            /\ last_run' = "dashboard"

\* A chat handler that grades without the attachment.
DashboardNoAttachment(cl, user_answer) ==
    /\ UNCHANGED <<uploaded_file_ref, current_file_name, workflow_status,
                   concept_map, flashcards_csv, concept_src, flashcards_src>>
    /\ IF user_answer # None
       THEN \E r \in RemoteOutcomes :
              LET answered == Append(quiz_history, <<"user", user_answer>>)
                  response == generate(cl, GradingPrompt(HistoryText(answered)), None, r)
              IN  /\ quiz_history' = Append(answered, <<"assistant", response.text>>)
                  /\ quiz_src' = quiz_src \cup {response.content_part}
                  /\ calls' = <<response>>
                  /\ last_run' = "chat"
       ELSE /\ UNCHANGED <<quiz_history, quiz_src>>
            /\ calls' = <<>>
            /\ last_run' = "dashboard"

\* A chat handler that keeps only the latest exchange.
DashboardTruncates(cl, user_answer) ==
    /\ UNCHANGED <<uploaded_file_ref, current_file_name, workflow_status,
                   concept_map, flashcards_csv, concept_src, flashcards_src>>
    /\ IF user_answer # None
       THEN \E r \in RemoteOutcomes :
              LET answered == Append(quiz_history, <<"user", user_answer>>)
                  response == generate(cl, GradingPrompt(HistoryText(answered)),
                                       uploaded_file_ref, r)
              IN  /\ quiz_history' = << quiz_history[Len(quiz_history)],
                                        <<"user", user_answer>>,
                                        <<"assistant", response.text>> >>
                  /\ quiz_src' = quiz_src \cup {response.content_part}
                  /\ calls' = <<response>>
                  /\ last_run' = "chat"
       ELSE /\ UNCHANGED <<quiz_history, quiz_src>>
            /\ calls' = <<>>
            /\ last_run' = "dashboard"

\* A chat handler that does not record the reply.
DashboardNoReply(cl, user_answer) ==
    /\ UNCHANGED <<uploaded_file_ref, current_file_name, workflow_status,
                   concept_map, flashcards_csv, concept_src, flashcards_src>>
    /\ IF user_answer # None
       THEN \E r \in RemoteOutcomes :
              LET answered == Append(quiz_history, <<"user", user_answer>>)
                  response == generate(cl, GradingPrompt(HistoryText(answered)),
                                       uploaded_file_ref, r)
              IN  /\ quiz_history' = answered
                  /\ UNCHANGED quiz_src
                  /\ calls' = <<response>>
                  /\ last_run' = "chat"
       ELSE /\ UNCHANGED <<quiz_history, quiz_src>>
            /\ calls' = <<>>
            /\ last_run' = "dashboard"

\* Lines 171-230.  user_answer: the value st.chat_input returns in this run.
Dashboard(cl, user_answer) ==
    /\ UNCHANGED <<uploaded_file_ref, current_file_name, workflow_status,
                   concept_map, flashcards_csv, concept_src, flashcards_src>>
    /\ IF user_answer # None
       THEN \E r \in RemoteOutcomes :
              LET answered == Append(quiz_history, <<"user", user_answer>>)
                  response == generate(cl, GradingPrompt(HistoryText(answered)),
                                       uploaded_file_ref, r)
                  ok == response.raised = None
              IN  /\ quiz_history' = IF ok THEN Append(answered, <<"assistant", response.text>>)
                                     ELSE answered
                  /\ quiz_src' = IF ok THEN quiz_src \cup {response.content_part} ELSE quiz_src
                  /\ calls' = <<response>>
                  /\ last_run' = IF ok THEN "chat" ELSE "uncaught_exception"
       ELSE /\ UNCHANGED <<quiz_history, quiz_src>>
            /\ calls' = <<>>
            /\ last_run' = "dashboard"

\* Lines 118-230: nothing is rendered below the uploader without a file ref.
Workflow(cl, clicked, user_answer) ==
    IF uploaded_file_ref # None
    THEN CASE workflow_status = "idle" -> LaunchView(clicked)
           [] workflow_status = "processing" -> Processing(cl)
           [] workflow_status = "done" -> Dashboard(cl, user_answer)
    ELSE /\ UNCHANGED <<session, concept_src, flashcards_src, quiz_src>>
         /\ calls' = <<>>
         /\ last_run' = "blank"

(***************************************************************************)
(* One execution of the script.  ev names what started it; file and key    *)
(* are the widget values it reads; clicked and user_answer are the values  *)
(* of the one-shot widgets.                                                *)
(***************************************************************************)
RunScript(ev, file, key, clicked, user_answer) ==
    /\ event' = ev
    /\ uploaded_file' = file
    /\ api_key' = key
    /\ UNCHANGED secrets
    /\ client' = ApiKeyHandling(secrets, key).client
    /\ warning_shown' = ApiKeyHandling(secrets, key).warning
    /\ IF NewUploadDetected(file) THEN NewUpload(file)
       ELSE IF FileRemovalDetected(file) THEN FileRemoval
       ELSE Workflow(ApiKeyHandling(secrets, key).client, clicked, user_answer)

\* The last run ended in st.rerun().
RerunPending == last_run \in {"upload_ok", "removal", "launch_clicked", "processing"}

LaunchButtonShown == last_run = "launch_shown"

ChatInputShown == last_run \in {"dashboard", "chat"}

(***************************************************************************)
(* The user's interactions and the automatic rerun.                        *)
(***************************************************************************)
Upload(f) ==
    /\ ~RerunPending
    /\ f # uploaded_file
    /\ RunScript("upload", f, api_key, FALSE, None)

Remove ==
    /\ ~RerunPending
    /\ uploaded_file # None
    /\ RunScript("remove", None, api_key, FALSE, None)

EnterApiKey(k) ==
    /\ ~RerunPending
    /\ ~secrets
    /\ k # api_key
    /\ RunScript("api_key", uploaded_file, k, FALSE, None)

ClickLaunch ==
    /\ ~RerunPending
    /\ LaunchButtonShown
    /\ RunScript("launch", uploaded_file, api_key, TRUE, None)

SubmitAnswer(a) ==
    /\ ~RerunPending
    /\ ChatInputShown
    /\ Len(quiz_history) + 2 <= MaxTurns
    /\ RunScript("chat", uploaded_file, api_key, FALSE, a)

\* Any interaction that changes none of the values above (the download
\* button, the expander).
Rerender ==
    /\ ~RerunPending
    /\ RunScript("render", uploaded_file, api_key, FALSE, None)

Rerun ==
    /\ RerunPending
    /\ RunScript("rerun", uploaded_file, api_key, FALSE, None)

\* The first run of a new session: no file, no key typed.
Init ==
    /\ secrets \in BOOLEAN
    /\ api_key = ""
    /\ client = ApiKeyHandling(secrets, "").client
    /\ warning_shown = ApiKeyHandling(secrets, "").warning
    /\ uploaded_file = None
    /\ uploaded_file_ref = None
    /\ current_file_name = None
    /\ workflow_status = "idle"
    /\ concept_map = None
    /\ flashcards_csv = None
    /\ quiz_history = <<>>
    /\ event = "connect"
    /\ last_run = "blank"
    /\ calls = <<>>
    /\ concept_src = None
    /\ flashcards_src = None
    /\ quiz_src = {}

Next ==
    \/ \E f \in Files : Upload(f)
    \/ Remove
    \/ \E k \in ApiKeys : EnterApiKey(k)
    \/ ClickLaunch
    \/ \E a \in UserAnswers : SubmitAnswer(a)
    \/ Rerender
    \/ Rerun

Spec == Init /\ [][Next]_vars

\* st.rerun() always starts the next run.
LiveSpec == Spec /\ WF_vars(Rerun)

TypeOK ==
    /\ workflow_status \in {"idle", "processing", "done"}
    /\ uploaded_file \in Files \cup {None}
    /\ Len(quiz_history) <= MaxTurns

(***************************************************************************)
(* Properties.                                                             *)
(***************************************************************************)
PartOf(file) == PartFromBytes(file.data, file.type)

DerivedReset == concept_map = None /\ flashcards_csv = None /\ quiz_history = <<>>

\* The run is the one in which the uploader has become empty.
ArtifactRemoved == uploaded_file # None /\ uploaded_file' = None

\* The run is the one in which the uploader has come to hold another
\* artifact (by name or by bytes) than the one that was processed into
\* uploaded_file_ref.
ArtifactReplaced ==
    /\ uploaded_file_ref # None
    /\ uploaded_file' # None
    /\ uploaded_file' # uploaded_file
    /\ \/ uploaded_file'.name # current_file_name
       \/ PartOf(uploaded_file') # uploaded_file_ref

\* C1: a run in which the uploaded artifact has been removed or replaced
\* leaves concept_map = None, flashcards_csv = None, quiz_history = [] and
\* workflow_status = "idle", all together.
C1_ArtifactChangeResetsAll ==
    [][(ArtifactRemoved \/ ArtifactReplaced)
         => (DerivedReset' /\ workflow_status' = "idle")]_vars

\* C2: at the end of every run, a concept map, flashcards and quiz turns
\* that are present were produced by calls of generate made with the
\* artifact that is in the uploader.
C2_NoStaleDerivedData ==
    /\ concept_map # None
         => (uploaded_file # None /\ concept_src = PartOf(uploaded_file))
    /\ flashcards_csv # None
         => (uploaded_file # None /\ flashcards_src = PartOf(uploaded_file))
    /\ quiz_history # <<>>
         => (uploaded_file # None /\ \A p \in quiz_src : p = PartOf(uploaded_file))

\* C3: in a run without a client the warning is rendered, and every call of
\* generate returns "Error: No API Key" without an outbound call.
C3_NoCredentialNoOutboundCall ==
    client = None =>
        /\ warning_shown
        /\ \A i \in 1..Len(calls) :
              /\ calls[i].request = None
              /\ calls[i].text = NoApiKey
              /\ calls[i].raised = None

C3_Witness ==
    /\ client = None
    /\ warning_shown
    /\ last_run = "processing"
    /\ Len(calls) = 3

StartsWith(s, prefix) ==
    Len(s) >= Len(prefix) /\ SubSeq(s, 1, Len(prefix)) = prefix

RemoteRaised(c) == c.caught # None \/ c.raised # None

\* C4: a call of generate whose remote call raised returns a string that
\* begins with "Error:" and raises nothing; the processing step and the chat
\* handler run to their end and store the returned strings.
C4_GatewayFailureIsErrorString ==
    /\ \A i \in 1..Len(calls) :
          /\ calls[i].raised = None
          /\ RemoteRaised(calls[i])
               => (calls[i].text # None /\ StartsWith(calls[i].text.chars, <<"Error:">>))
    /\ last_run # "uncaught_exception"
    /\ last_run = "processing"
         => /\ Len(calls) = 3
            /\ concept_map = calls[1].text
            /\ flashcards_csv = calls[2].text
            /\ quiz_history = << <<"assistant", calls[3].text>> >>
            /\ workflow_status = "done"
    /\ last_run = "chat"
         => /\ Len(calls) = 1
            /\ quiz_history[Len(quiz_history)] = <<"assistant", calls[1].text>>

C4_Witness ==
    /\ last_run = "chat"
    /\ calls[1].caught # None
    /\ concept_map = ErrorText(Str(<<"503">>))

ThreeCallsInOrder(c, part) ==
    /\ Len(c) = 3
    /\ c[1].prompt = summary_prompt
    /\ c[2].prompt = flashcard_prompt
    /\ c[3].prompt = q1_prompt
    /\ \A i \in 1..3 : c[i].content_part = part

\* C5: the launch action takes workflow_status from "idle", with an artifact
\* attached, to "processing"; from "processing" the workflow always reaches
\* "done", in the run that makes exactly the three calls of generate
\* (concept map, flashcards, first question) in that order, whatever they
\* return; "done" is entered in no other way.
C5_LaunchProcessingDone ==
    /\ [][event' = "launch"
            => /\ workflow_status = "idle"
               /\ uploaded_file_ref # None
               /\ workflow_status' = "processing"]_vars
    /\ (workflow_status = "processing") ~> (workflow_status = "done")
    /\ [][workflow_status = "processing"
            => /\ workflow_status' = "done"
               /\ ThreeCallsInOrder(calls', uploaded_file_ref)]_vars
    /\ [][(workflow_status # "done" /\ workflow_status' = "done")
            => workflow_status = "processing"]_vars

C5_Witness ==
    /\ workflow_status = "done"
    /\ last_run = "processing"
    /\ ThreeCallsInOrder(calls, uploaded_file_ref)
    /\ calls[2].caught # None

LineLen(turn) == 3 + Len(turn[2].chars)

RECURSIVE Offset(_, _)
\* Where the line of turn i starts in a transcript of h.
Offset(h, i) == IF i = 1 THEN 0 ELSE Offset(h, i - 1) + LineLen(h[i - 1]) + 1

Transcript(prompt) ==
    SubSeq(prompt.chars, Len(GradingHead) + 1, Len(prompt.chars) - Len(GradingTail))

\* The transcript t is the turns of h, each once, in order, each as
\* "<role>: <text>", separated by newlines, and nothing else.
IsTranscriptOf(t, h) ==
    /\ Len(t) = Offset(h, Len(h)) + LineLen(h[Len(h)])
    /\ \A i \in 1..Len(h) :
          /\ t[Offset(h, i) + 1] = h[i][1]
          /\ t[Offset(h, i) + 2] = ":"
          /\ t[Offset(h, i) + 3] = " "
          /\ SubSeq(t, Offset(h, i) + 4, Offset(h, i) + LineLen(h[i])) = h[i][2].chars
          /\ i < Len(h) => t[Offset(h, i) + LineLen(h[i]) + 1] = "\n"

\* C6: the prompt of every grading call embeds the transcript of all turns
\* recorded so far: the history before the submission followed by the
\* answer just submitted.
C6_TranscriptHasEveryTurn ==
    [][last_run' = "chat"
         => LET h == SubSeq(quiz_history', 1, Len(quiz_history') - 1)
            IN  /\ Len(h) = Len(quiz_history) + 1
                /\ SubSeq(h, 1, Len(quiz_history)) = quiz_history
                /\ h[1][1] = "assistant"
                /\ h[Len(h)][1] = "user"
                /\ h[Len(h)][2] \in UserAnswers
                /\ StartsWith(calls'[1].prompt.chars, GradingHead)
                /\ IsTranscriptOf(Transcript(calls'[1].prompt), h)]_vars

C6_Witness ==
    /\ last_run = "chat"
    /\ Len(quiz_history) = 5
    /\ quiz_history[2][2] # quiz_history[4][2]

\* C7: a run that starts with workflow_status "idle", or with "done" and
\* neither a chat submission nor a change of the uploader, calls generate
\* zero times and leaves concept_map, flashcards_csv and quiz_history as
\* they were; only the processing run (three calls) and the run of one chat
\* submission (one call) call generate.
C7_NoCallsOnRerender ==
    /\ [][(\/ workflow_status = "idle"
           \/ workflow_status = "done" /\ event' \notin {"chat", "upload", "remove"})
            => (calls' = <<>> /\ derived' = derived)]_vars
    /\ [](Len(calls) > 0
            => \/ last_run = "processing" /\ event = "rerun" /\ Len(calls) = 3
               \/ last_run = "chat" /\ event = "chat" /\ Len(calls) = 1)

C7_Witness ==
    /\ event = "render"
    /\ last_run = "dashboard"
    /\ workflow_status = "done"
    /\ calls = <<>>
    /\ Len(quiz_history) = 3

\* C8: from workflow_status "done" a run leads to "done", or to "idle" in a
\* run of the new-upload or file-removal block after the uploader changed;
\* never to "processing".
C8_DoneIsTerminal ==
    [][workflow_status = "done"
         => \/ workflow_status' = "done"
            \/ /\ workflow_status' = "idle"
               /\ last_run' \in {"upload_ok", "upload_error", "removal"}
               /\ uploaded_file' # uploaded_file]_vars

C8_Witness ==
    /\ workflow_status = "done"
    /\ event = "render"
    /\ Len(quiz_history) = 3

\* C9: workflow_status becomes "processing" only in the run of a click on
\* the launch button, and that run starts with an artifact attached and
\* workflow_status "idle".
C9_ProcessingOnlyByLaunch ==
    /\ [][(workflow_status # "processing" /\ workflow_status' = "processing")
            => event' = "launch"]_vars
    /\ [][event' = "launch"
            => /\ uploaded_file_ref # None
               /\ workflow_status = "idle"
               /\ uploaded_file_ref' = uploaded_file_ref]_vars

C9_Witness ==
    /\ event = "launch"
    /\ last_run = "launch_clicked"
    /\ workflow_status = "processing"

\* C10: workflow_status in {"processing", "done"} implies a file ref, and a
\* file ref is only ever set by the new-upload block processing the file
\* that the user put in the uploader.
C10_FileRefOnlyFromUpload ==
    /\ [](workflow_status \in {"processing", "done"} => uploaded_file_ref # None)
    /\ [](uploaded_file_ref # None
            => uploaded_file # None /\ current_file_name = uploaded_file.name)
    /\ [][(uploaded_file_ref' # None /\ uploaded_file_ref' # uploaded_file_ref)
            => /\ last_run' = "upload_ok"
               /\ uploaded_file' # None
               /\ uploaded_file_ref' = PartOf(uploaded_file')]_vars

C10_Witness ==
    /\ workflow_status = "done"
    /\ last_run = "dashboard"
    /\ uploaded_file # None
    /\ uploaded_file_ref = PartOf(uploaded_file)


\* What generate returns for a call that failed: the text of the missing
\* credential, or of the exception of the remote call.
FailureText(c) ==
    IF c.request = None THEN NoApiKey ELSE ErrorText(c.caught)

CallFailed(c) == c.request = None \/ c.caught # None

\* C11: whichever of the three workflow calls fail (a remote exception, or
\* no credential), each failure text is stored in its field (concept_map,
\* flashcards_csv, the first turn of quiz_history) as a result would be,
\* all three steps run, and workflow_status becomes "done".
C11_FailureStoredAndDone ==
    [][workflow_status = "processing"
         => /\ Len(calls') = 3
            /\ workflow_status' = "done"
            /\ Len(quiz_history') = 1
            /\ quiz_history'[1][1] = "assistant"
            /\ \A i \in 1..3 :
                  LET stored == CASE i = 1 -> concept_map'
                                  [] i = 2 -> flashcards_csv'
                                  [] i = 3 -> quiz_history'[1][2]
                  IN  /\ stored = calls'[i].text
                      /\ CallFailed(calls'[i]) => stored = FailureText(calls'[i])]_vars

\* The first and the third call failed and the second did not.
C11_Witness ==
    /\ last_run = "processing"
    /\ workflow_status = "done"
    /\ concept_map = ErrorText(Str(<<"503">>))
    /\ flashcards_csv = Str(<<"reply">>)
    /\ quiz_history = << <<"assistant", ErrorText(Str(<<"503">>))>> >>


\* C12: a chat submission appends ("user", message), makes exactly one
\* call of generate whose prompt already holds that message and whose
\* content_part is the session's file ref, and then appends ("assistant",
\* response) with the text that call returned, an error string included:
\* two more turns, in that order.
C12_ChatSubmissionTwoTurns ==
    [][event' = "chat"
         => LET n == Len(quiz_history)
                h == quiz_history'
            IN  /\ workflow_status = "done" /\ workflow_status' = "done"
                /\ Len(h) = n + 2
                /\ SubSeq(h, 1, n) = quiz_history
                /\ h[n + 1][1] = "user"
                /\ h[n + 1][2] \in UserAnswers
                /\ Len(calls') = 1
                /\ uploaded_file_ref # None
                /\ calls'[1].content_part = uploaded_file_ref
                /\ calls'[1].request # None
                     => calls'[1].request.contents = <<calls'[1].prompt, uploaded_file_ref>>
                /\ calls'[1].prompt = GradingPrompt(HistoryText(SubSeq(h, 1, n + 1)))
                /\ h[n + 2] = <<"assistant", calls'[1].text>>]_vars

\* The second submission, answered by an error string.
C12_Witness ==
    /\ event = "chat"
    /\ Len(quiz_history) = 5
    /\ calls[1].caught # None
    /\ quiz_history[5] = <<"assistant", ErrorText(Str(<<"503">>))>>

RECURSIVE IsPrefix(_, _)
IsPrefix(s, t) ==
    IF s = <<>> THEN TRUE
    ELSE IF t = <<>> THEN FALSE
    ELSE Head(s) = Head(t) /\ IsPrefix(Tail(s), Tail(t))

\* C13: as long as the uploader keeps its file, the quiz history of a state
\* is a prefix of the quiz history of the next state, the processing step
\* (which assigns the history) included.
C13_HistoryAppendOnly ==
    [][uploaded_file' = uploaded_file => IsPrefix(quiz_history, quiz_history')]_vars

C13_Witness ==
    /\ last_run = "chat"
    /\ Len(quiz_history) = 5
    /\ quiz_history[3][2] = Str(<<"reply">>)


UserAction ==
    \/ \E f \in Files : Upload(f)
    \/ Remove
    \/ ClickLaunch
    \/ \E a \in UserAnswers : SubmitAnswer(a)

\* An interaction whose run attaches the file in the uploader: an upload, or
\* any interaction while the uploader holds a file that is not attached yet.
AttachFile ==
    /\ (\E f \in Files : Upload(f)) \/ Rerender
    /\ last_run' = "upload_ok"

\* The last run saw a failure: a failed call of generate, or a failed
\* processing of the upload.
FailureSeen ==
    \/ \E i \in 1..Len(calls) : CallFailed(calls[i])
    \/ last_run = "upload_error"

\* C14: the session is never stuck.  A run that saw a gateway failure still
\* took its whole path (the processing run, whose rerun renders the
\* dashboard, or the chat run); a pending rerun can run; between runs a
\* user action is enabled, and so is an interaction that attaches a file,
\* after which the rerun renders the launch button with the file ref set.
C14_NeverStuck ==
    /\ []((\E i \in 1..Len(calls) : CallFailed(calls[i]))
            => last_run \in {"processing", "chat"})
    /\ [](RerunPending => ENABLED Rerun)
    /\ [](~RerunPending => (ENABLED UserAction /\ ENABLED AttachFile))
    /\ [][last_run = "processing"
            => (last_run' = "dashboard" /\ uploaded_file_ref' # None)]_vars
    /\ [][last_run = "upload_ok"
            => (last_run' = "launch_shown" /\ uploaded_file_ref' # None)]_vars

\* After a failed processing of an upload, on top of a workflow whose three
\* calls had failed before.
C14_Witness ==
    /\ FailureSeen
    /\ last_run = "upload_error"
    /\ current_file_name # None
    /\ uploaded_file_ref = None
    /\ ENABLED AttachFile


\* C15: whenever a run ends with a file in the uploader and raised no
\* upload-processing error, the file ref is set and current_file_name is
\* that file's name.
C15_PresentFileIsAttached ==
    (uploaded_file # None /\ last_run # "upload_error")
        => (uploaded_file_ref # None /\ current_file_name = uploaded_file.name)

\* C16: workflow_status "idle" implies no concept map, no flashcards and an
\* empty quiz history; the derived fields get a value only in the processing
\* run and the chat run, and are clear whenever the status goes back to
\* "idle".
C16_IdleHasNoDerivedData ==
    /\ [](workflow_status = "idle" => DerivedReset)
    /\ [][(derived' # derived /\ ~DerivedReset')
            => last_run' \in {"processing", "chat"}]_vars
    /\ [][(workflow_status # "idle" /\ workflow_status' = "idle")
            => DerivedReset']_vars

\* Back in "idle" with a file attached, as after a replacement.
C16_Witness ==
    /\ workflow_status = "idle"
    /\ last_run = "upload_ok"
    /\ current_file_name = Str(<<"slides.pdf">>)
    /\ event = "upload"
    /\ DerivedReset

\* C17: with workflow_status "done" at the end of a run the quiz history
\* is not empty, its roles alternate assistant, user, assistant, ..., and
\* it begins and ends with an assistant turn, so its length is odd.
C17_HistoryAlternates ==
    workflow_status = "done"
        => /\ Len(quiz_history) >= 1
           /\ Len(quiz_history) % 2 = 1
           /\ \A i \in 1..Len(quiz_history) :
                 quiz_history[i][1] = (IF i % 2 = 1 THEN "assistant" ELSE "user")
           /\ quiz_history[Len(quiz_history)][1] = "assistant"

C17_Witness ==
    /\ workflow_status = "done"
    /\ Len(quiz_history) = 5
    /\ last_run = "dashboard"

\* C18: a chain of reruns is finite and short.  A pending rerun leads to a
\* run that ends without st.rerun(); the rerun of a rerun never asks for a
\* third one; the chains are upload -> launch button, removal -> empty
\* page, launch -> processing -> dashboard.
C18_RerunChainsEnd ==
    /\ RerunPending ~> ~RerunPending
    /\ [][(event = "rerun" /\ event' = "rerun") => ~RerunPending']_vars
    /\ [][RerunPending
            => \/ last_run = "upload_ok" /\ last_run' = "launch_shown"
               \/ last_run = "removal" /\ last_run' = "blank"
               \/ last_run = "launch_clicked" /\ last_run' = "processing"
               \/ last_run = "processing" /\ last_run' = "dashboard"]_vars

\* The end of the longest chain: launch, processing, dashboard.
C18_Witness ==
    /\ event = "rerun"
    /\ last_run = "dashboard"
    /\ ~RerunPending
    /\ Len(calls) = 0
    /\ Len(quiz_history) = 1

====
